---- MODULE Spec2Model ----
(***************************************************************************)
(* Model of the sharded multi-GPU prover (crates/node/core/src/sharded.rs).*)
(*                                                                         *)
(* Cycle counts are in units of 10^6 cycles.  Shard ids and gpu ids are    *)
(* 0-based as in the source; a Vec is a sequence, so element k (1-based)   *)
(* of the shard list is the shard with shard_id = k - 1.  In the           *)
(* calibrator, money is in units of 10^-6 USD and time in seconds.         *)
(*                                                                         *)
(* Specifications:                                                         *)
(*   SpecPartition  create_shards applied to every bounded valid config    *)
(*                  and every bounded total_cycles;                        *)
(*   SpecCheckpoint repeated create_checkpoint calls for one workload;     *)
(*   SpecConstruct  new, create_shards and the first acquire of each shard *)
(*                  for every bounded ShardingConfig, valid or not;        *)
(*   SpecCalibrate  one calibrate call of either calibrator;               *)
(*   Spec           concurrent process_proof_request calls on one          *)
(*                  ShardedProver and its clones;                          *)
(*   SpecLive       Spec under fair scheduling;                            *)
(*   SpecTimed      Spec with the clock running;                           *)
(*   SpecMetrics    update_metrics called any number of times;             *)
(*   SpecProofTimes ProverMonitor::record_proof_completion called any      *)
(*                  number of times (crates/node/core/src/monitoring.rs);  *)
(*   SpecMonitor    the monitoring loop and two callers on the monitor's   *)
(*                  two locks, under fair scheduling;                      *)
(*   SpecPool       MemoryPool acquire and release                         *)
(*                  (crates/node/core/src/memory_optimizer.rs);            *)
(*   SpecMemory     two threads on one MemoryOptimizer.                    *)
(***************************************************************************)
EXTENDS Integers, Sequences, FiniteSets, TLC

\* ----------------------------------------------------------------- bounds
MaxGpus == 3
MaxShardsPerGpu == 2
\* largest min/max_cycles_per_shard and half the largest total_cycles tried
MaxCycles == 4
\* cap on the shard tasks of all process_proof_request calls in flight
MaxInFlight == 4
\* clones of the ShardedProver besides the original
NumClones == 1
\* concurrent process_proof_request calls
MaxCalls == 3
\* create_checkpoint calls made in SpecCheckpoint
MaxCkptCalls == 4
\* largest num_gpus of a ShardedCalibrator
MaxCalGpus == 2
\* longest proof generation of a calibration, in seconds
MaxProofSecs == 2
\* proofs counted by the metrics after which no further call is submitted
MaxProofs == 1
\* last tick of the clock in SpecTimed
MaxClock == 2
MaxUpdates == 5
\* longest duration given to record_proof_completion, in nanoseconds
MaxDuration == 2
\* cap on the record_proof_completion calls of one run
MaxRecords == 4
\* cap on the record_proof_completion and record_deadline_miss calls made
\* beside the monitoring loop
MaxMonCalls == 2
\* cap on the iterations of the monitoring loop
MaxLoopTicks == 1
\* largest MemoryPool capacity
MaxCapacity == 3
\* cap on the acquire and release calls on one MemoryPool
MaxPoolCalls == 6
\* the width of usize, in bits, the MemoryOptimizer's counters are kept at
UsizeBits == 3
\* largest size given to record_allocation and record_deallocation
MaxAllocSize == 2
\* cap on the record_allocation and record_deallocation calls of one run
MaxMemCalls == 3

\* ------------------------------------------------------ program constants
\* estimate_cycles: 10_000_000
EstimateCycles == 10
\* detect_gpu_configuration: min_cycles = 2_000_000, max_cycles = 20_000_000
DefaultMinCycles == 2
DefaultMaxCycles == 20

VARIABLES
    config,          \* ShardedProver.config : ShardingConfig
    cs_total,        \* SpecPartition: the total_cycles argument of create_shards
    cs_state,        \* SpecPartition: "ready" | "returned"
    cs_result,       \* SpecPartition: the Vec<ProofShard> create_shards returned
    pc,              \* per call of process_proof_request: "idle" | "joining" | "done"
    req_sems,        \* per call: the gate table self.gpu_semaphores points to
    shards,          \* per call: the Vec<ProofShard> of create_shards
    spc,             \* per call, per shard future: "acquire" | "proving" | "done"
    shard_results,   \* per call, per shard: the ShardResult, NoResult before
    outcome,         \* per call: what process_proof_request returned
    gpu_semaphores,  \* gate table -> gpu id -> free permits of the Semaphore
    cuda_env,        \* the process environment variable CUDA_VISIBLE_DEVICES
    prover_call,     \* per call, per shard: the client and prove request of the
                     \* blocking task while it runs, NoCall otherwise
    checkpoints,     \* ShardedProver.checkpoints: key -> stored snapshot
    now,             \* the monotonic clock Instant::now() reads, in ticks
    req_time,        \* per call: start_time and total_time of process_proof_request
    shard_time,      \* per call, per shard: start_time of process_shard, the tick
                     \* its permit was acquired at, ShardResult.processing_time
    metrics,         \* ShardedProver.metrics : ShardedProverMetrics
    ck_requests,     \* SpecCheckpoint: the cycle offsets create_checkpoint was asked for
    ck_computed,     \* SpecCheckpoint: how many snapshots create_checkpoint computed
    ck_last,         \* SpecCheckpoint: the snapshot the last call returned
    calib,           \* the calibrator (its kind and fields) and the gas its execute reports
    cal_pc,          \* calibrate: "start" | "proving" | "returned"
    cal_runs,        \* calibrate: proof generations completed
    cal_started,     \* calibrate: proof generations started
    cal_total_gas,   \* calibrate: total_gas (prover_gas for SinglePassCalibrator)
    cal_elapsed,     \* calibrate: time elapsed since start
    cal_result,      \* calibrate: the returned Result<CalibratorMetrics>
    mon_metrics,     \* ProverMonitor.metrics : ProverMetrics
    mon_alerts,      \* ProverMonitor.alerts : Vec<Alert>
    mon_lock,        \* ProverMonitor: the tasks holding the metrics and alerts mutex
    mon_pc,          \* ProverMonitor: per task, the call it is in and the locks it took
    mon_ticks,       \* ProverMonitor: iterations the monitoring loop has begun
    mon_hist,        \* the durations record_proof_completion was given with success
    pool,            \* MemoryPool: capacity and in_use
    pool_last,       \* MemoryPool: the last call, in_use before it, what it returned
    pool_calls,      \* MemoryPool: acquire and release calls made
    mem,             \* MemoryOptimizer: its four atomic counters
    mem_pc,          \* MemoryOptimizer: per thread, the call it is in and its locals
    mem_hist         \* MemoryOptimizer: completed calls of each kind, and the values
                     \* current_memory took right after an allocation

partVars == <<cs_total, cs_state, cs_result>>
ckVars == <<ck_requests, ck_computed, ck_last>>
timeVars == <<now, req_time, shard_time>>
schedVars == <<pc, req_sems, shards, spc, shard_results, outcome, gpu_semaphores,
               cuda_env, prover_call, now, req_time, shard_time, metrics>>
calVars == <<calib, cal_pc, cal_runs, cal_started, cal_total_gas, cal_elapsed,
             cal_result>>
monVars == <<mon_metrics, mon_alerts, mon_lock, mon_pc, mon_ticks, mon_hist>>
poolVars == <<pool, pool_last, pool_calls>>
memVars == <<mem, mem_pc, mem_hist>>
sideVars == <<monVars, poolVars, memVars>>
vars == <<config, cs_total, cs_state, cs_result, pc, req_sems, shards, spc,
          shard_results, outcome, gpu_semaphores, cuda_env, prover_call,
          checkpoints, ck_requests, ck_computed, ck_last,
          now, req_time, shard_time, metrics,
          calib, cal_pc, cal_runs, cal_started, cal_total_gas, cal_elapsed,
          cal_result,
          mon_metrics, mon_alerts, mon_lock, mon_pc, mon_ticks, mon_hist,
          pool, pool_last, pool_calls, mem, mem_pc, mem_hist>>

Min(a, b) == IF a <= b THEN a ELSE b
Max(a, b) == IF a >= b THEN a ELSE b

\* ------------------------------------------------------------ data model
\* ShardingConfig values that satisfy the config invariant
ValidConfigs ==
    { c \in [num_gpus : 1..MaxGpus,
             shards_per_gpu : 1..MaxShardsPerGpu,
             min_cycles_per_shard : 0..MaxCycles,
             max_cycles_per_shard : 0..MaxCycles,
             enable_checkpointing : BOOLEAN] :
        c.min_cycles_per_shard <= c.max_cycles_per_shard }

\* a variant of gpu_devices that numbers the devices from one
gpu_devices_from_one(cfg) == [k \in 1..cfg.num_gpus |-> k]

\* variant: the device order follows the load on device 0 at the time of the call
gpu_devices_by_load(cfg) ==
    [k \in 1..cfg.num_gpus |->
        IF gpu_semaphores[0][0] < cfg.shards_per_gpu THEN cfg.num_gpus - k ELSE k - 1]

\* ShardedProver::new: gpu_devices = (0..config.num_gpus).collect()
gpu_devices(cfg) == [k \in 1..cfg.num_gpus |-> k - 1]

NoCheckpoint == [present |-> FALSE, cycle |-> 0]

\* create_checkpoint: the bytes of "checkpoint_cycle_{cycle}"
create_checkpoint(cycle) == [present |-> TRUE, cycle |-> cycle]

\* variant: no snapshot is produced while partitioning (left to the shard)
shard_checkpoint_deferred(cfg, start_cycle) == NoCheckpoint

\* mutant of shard_checkpoint: the test on start_cycle is >= 0, so the shard
\* that starts at cycle 0 gets a checkpoint too
shard_checkpoint_from_zero(cfg, start_cycle) ==
    IF cfg.enable_checkpointing /\ start_cycle >= 0
    THEN create_checkpoint(start_cycle)
    ELSE NoCheckpoint

\* create_shards, checkpoint_data of a shard: a checkpoint at its start offset
\* when checkpointing is enabled and the shard does not start at cycle 0
shard_checkpoint(cfg, start_cycle) ==
    IF cfg.enable_checkpointing /\ start_cycle > 0
    THEN create_checkpoint(start_cycle)
    ELSE NoCheckpoint

\* create_shards, the per-shard cycle budget
cycles_per_shard(cfg, total_cycles) ==
    Min(Max(total_cycles \div cfg.num_gpus, cfg.min_cycles_per_shard),
        cfg.max_cycles_per_shard)

\* create_shards: one ProofShard per entry of gpu_devices
create_shards(cfg, total_cycles) ==
    LET cps == cycles_per_shard(cfg, total_cycles)
        devs == gpu_devices(cfg)
    IN  [k \in 1..Len(devs) |->
            LET shard_id == k - 1
                start_cycle == shard_id * cps
                end_cycle == Min(start_cycle + cps, total_cycles)
            IN  [shard_id |-> shard_id,
                 gpu_id |-> devs[k],
                 start_cycle |-> start_cycle,
                 end_cycle |-> end_cycle,
                 checkpoint_data |-> shard_checkpoint(cfg, start_cycle)]]

\* CUDA_VISIBLE_DEVICES before any shard has set it
EnvUnset == -1

\* clock ticks in one millisecond
TicksPerMilli == 2

\* Duration::as_millis and Duration::from_millis
as_millis(d) == d \div TicksPerMilli
from_millis(ms) == ms * TicksPerMilli

NoReqTime == [start_time |-> 0, total_time |-> 0]
NoShardTime == [start_time |-> 0, permit_at |-> 0, processing_time |-> 0]

\* ShardedProverMetrics::default()
DefaultMetrics ==
    [total_proofs_processed |-> 0, total_shards_processed |-> 0,
     average_latency |-> 0, total_processing_time |-> 0]

\* a variant of update_metrics that counts one shard for a workload and
\* averages the completed workloads' own whole milliseconds
update_metrics_per_workload(m, processing_time, num_shards) ==
    [total_proofs_processed |-> m.total_proofs_processed + 1,
     total_shards_processed |-> m.total_shards_processed + 1,
     total_processing_time |-> m.total_processing_time + processing_time,
     average_latency |->
         from_millis((as_millis(m.average_latency) * m.total_proofs_processed
                         + as_millis(processing_time))
                        \div (m.total_proofs_processed + 1))]

\* update_metrics, the body under the metrics lock
update_metrics(m, processing_time, num_shards) ==
    LET total_proofs_processed == m.total_proofs_processed + 1
        total_processing_time == m.total_processing_time + processing_time
    IN  [total_proofs_processed |-> total_proofs_processed,
         total_shards_processed |-> m.total_shards_processed + num_shards,
         total_processing_time |-> total_processing_time,
         average_latency |->
             IF total_proofs_processed > 0
             THEN from_millis(as_millis(total_processing_time)
                                  \div total_proofs_processed)
             ELSE m.average_latency]

\* variant: the metrics mutex admits a second holder
metrics_lock_free_unguarded(holders) == TRUE

\* self.metrics.lock().await returns when no other task holds the guard
metrics_lock_free(holders) == holders = {}

\* Instant::elapsed of a start_time read at tick t
elapsed(start_time, t) == t - start_time

\* ------------------------------------------------- SpecPartition
InitSched ==
    /\ pc = [r \in 1..MaxInFlight |-> "idle"]
    /\ req_sems = [r \in 1..MaxInFlight |-> 0]
    /\ shards = [r \in 1..MaxInFlight |-> <<>>]
    /\ spc = [r \in 1..MaxInFlight |-> <<>>]
    /\ shard_results = [r \in 1..MaxInFlight |-> <<>>]
    /\ outcome = [r \in 1..MaxInFlight |->
                    [kind |-> "none", proof |-> [parts |-> {}, recursion |-> FALSE],
                     named |-> {}, msg |-> ""]]
    /\ prover_call = [r \in 1..MaxInFlight |-> <<>>]
    /\ cuda_env = EnvUnset
    /\ checkpoints = <<>>
    /\ now = 0
    /\ req_time = [r \in 1..MaxInFlight |-> NoReqTime]
    /\ shard_time = [r \in 1..MaxInFlight |-> <<>>]
    /\ metrics = DefaultMetrics

\* f64 values that are not negative, as fractions n/d: d = 0 with n > 0 is
\* +infinity and 0/0 is NaN, so that x / 0.0, 0.0 / 0.0, 0.0 * infinity and
\* x / infinity come out as IEEE 754 gives them.  Rounding is not modelled.
RECURSIVE GCD(_, _)
GCD(a, b) == IF b = 0 THEN a ELSE GCD(b, a % b)

Frac(n, d) ==
    IF d = 0 THEN [n |-> IF n > 0 THEN 1 ELSE 0, d |-> 0]
    ELSE IF n = 0 THEN [n |-> 0, d |-> 1]
    ELSE [n |-> n \div GCD(n, d), d |-> d \div GCD(n, d)]

FInt(i) == Frac(i, 1)
FMul(a, b) == Frac(a.n * b.n, a.d * b.d)
FDiv(a, b) == Frac(a.n * b.d, a.d * b.n)
FAdd(a, b) == Frac(a.n * b.d + b.n * a.d, a.d * b.d)
FIsFinite(a) == a.d # 0

\* report.gas is None
NoGas == -1

NoMetrics ==
    [kind |-> "none", at |-> "", pgus_per_second |-> FInt(0), pgu_price |-> FInt(0)]

\* no calibrate call is running
InitCalIdle ==
    /\ calib = [kind |-> "single", cost_per_hour |-> FInt(0),
                utilization_rate |-> FInt(0), profit_margin |-> FInt(0),
                num_gpus |-> 1, gas |-> NoGas]
    /\ cal_pc = "unused"
    /\ cal_runs = 0
    /\ cal_started = 0
    /\ cal_total_gas = 0
    /\ cal_elapsed = 0
    /\ cal_result = NoMetrics

\* ------------------------------------------------------- ProverMonitor
\* the task start_monitoring spawns; the other tasks are callers
MonLoop == 0
MonTasks == 0..2
MonCallers == MonTasks \ {MonLoop}

\* ProverMetrics::default(), the fields the monitor's own code reads or writes
\* (durations in nanoseconds, success_rate a fraction of 100)
DefaultProverMetrics ==
    [total_proofs_completed |-> 0,
     total_proofs_failed |-> 0,
     average_proof_time |-> 0,
     fastest_proof_time |-> 0,
     slowest_proof_time |-> 0,
     deadline_misses |-> 0,
     success_rate |-> FInt(100)]

\* record_proof_completion, the body under the metrics lock; Duration * u32
\* and Duration / u32 are exact in nanoseconds, the division rounding down
record_proof_completion(m, duration, success) ==
    IF success
    THEN LET total_proofs_completed == m.total_proofs_completed + 1
             total_time == m.average_proof_time * total_proofs_completed + duration
         IN  [m EXCEPT
                 !.total_proofs_completed = total_proofs_completed,
                 !.fastest_proof_time =
                     IF @ = 0 \/ duration < @ THEN duration ELSE @,
                 !.slowest_proof_time = IF duration > @ THEN duration ELSE @,
                 !.average_proof_time =
                     total_time \div (total_proofs_completed + 1)]
    ELSE [m EXCEPT !.total_proofs_failed = @ + 1]

\* update_system_metrics: success_rate from the two counters
update_system_metrics(m) ==
    LET total_attempts == m.total_proofs_completed + m.total_proofs_failed
    IN  IF total_attempts > 0
        THEN [m EXCEPT !.success_rate =
                           Frac(100 * m.total_proofs_completed, total_attempts)]
        ELSE m

Alert(level, category, message) ==
    [level |-> level, category |-> category, message |-> message,
     acknowledged |-> FALSE]

\* check_alerts under both locks: the readings update_gpu_metrics stores
\* (78.5 and 76.2 degrees, 85.2 and 82.7 percent) raise no alert; then the
\* deadline-miss and the success-rate alert
check_alerts(m, a) ==
    LET a1 == IF m.deadline_misses > 0
              THEN Append(a, Alert("Critical", "Performance",
                                   "Deadline misses detected"))
              ELSE a
    IN  IF m.success_rate.n < 95 * m.success_rate.d
        THEN Append(a1, Alert("Warning", "Reliability",
                              "Success rate below threshold"))
        ELSE a1

\* the alert record_deadline_miss pushes
deadline_miss_alert == Alert("Critical", "Performance", "Proof deadline missed!")

\* a variant of lock_order in which record_deadline_miss locks the alerts first
lock_order_alerts_first(op) ==
    CASE op = "record_deadline_miss" -> <<"alerts", "metrics">>
      [] op = "check_alerts" -> <<"metrics", "alerts">>
      [] op = "get_alerts" -> <<"alerts">>
      [] OTHER -> <<"metrics">>

\* the mutexes a function locks, in the order of its lock().await calls
lock_order(op) ==
    CASE op = "record_deadline_miss" -> <<"metrics", "alerts">>
      [] op = "check_alerts" -> <<"metrics", "alerts">>
      [] op = "get_alerts" -> <<"alerts">>
      [] OTHER -> <<"metrics">>

\* the monitoring loop: what follows each of its calls
loop_next(op) ==
    CASE op = "update_system_metrics" -> "update_gpu_metrics"
      [] op = "update_gpu_metrics" -> "check_alerts"
      [] op = "check_alerts" -> "log_status"
      [] OTHER -> "idle"

MonIdle == [op |-> "idle", held |-> 0, duration |-> 0, success |-> FALSE]

InitMonIdle ==
    /\ mon_metrics = DefaultProverMetrics
    /\ mon_alerts = <<>>
    /\ mon_lock = [metrics |-> {}, alerts |-> {}]
    /\ mon_pc = [t \in MonTasks |-> MonIdle]
    /\ mon_ticks = 0
    /\ mon_hist = <<>>

\* --------------------------------------------------------- MemoryPool
NoPoolCall == [op |-> "new", before |-> 0, result |-> "unit"]

\* a variant of pool_acquire that compares with <=
pool_acquire_one_past(p) ==
    IF p.in_use <= p.capacity
    THEN [pool |-> [p EXCEPT !.in_use = @ + 1], result |-> "Some"]
    ELSE [pool |-> p, result |-> "None"]

\* MemoryPool::acquire: the pool afterwards and Some(obj) or None
pool_acquire(p) ==
    IF p.in_use < p.capacity
    THEN [pool |-> [p EXCEPT !.in_use = @ + 1], result |-> "Some"]
    ELSE [pool |-> p, result |-> "None"]

\* MemoryPool::release
pool_release(p) == IF p.in_use > 0 THEN [p EXCEPT !.in_use = @ - 1] ELSE p

InitPoolIdle ==
    /\ pool = [capacity |-> 0, in_use |-> 0]
    /\ pool_last = NoPoolCall
    /\ pool_calls = 0

\* ---------------------------------------------------- MemoryOptimizer
MemThreads == 1..2

\* AtomicUsize arithmetic wraps around
RECURSIVE Pow2(_)
Pow2(n) == IF n = 0 THEN 1 ELSE 2 * Pow2(n - 1)
wrapping_add(a, b) == (a + b) % Pow2(UsizeBits)
wrapping_sub(a, b) == (a - b + Pow2(UsizeBits)) % Pow2(UsizeBits)

\* MemoryOptimizer::new()
NewOptimizer ==
    [allocations |-> 0, deallocations |-> 0, peak_memory |-> 0,
     current_memory |-> 0]

MemIdle == [op |-> "idle", at |-> "idle", size |-> 0, current |-> 0, peak |-> 0]

InitMemIdle ==
    /\ mem = NewOptimizer
    /\ mem_pc = [t \in MemThreads |-> MemIdle]
    /\ mem_hist = [allocated |-> 0, deallocated |-> 0, after_allocation |-> {}]

InitSideIdle ==
    /\ InitMonIdle
    /\ InitPoolIdle
    /\ InitMemIdle

\* no create_checkpoint call has been made
InitCk ==
    /\ ck_requests = <<>>
    /\ ck_computed = 0
    /\ ck_last = NoCheckpoint

\* the prover and the calibrator, constructed and not called
InitProverIdle ==
    /\ config = [num_gpus |-> 1, shards_per_gpu |-> 1,
                 min_cycles_per_shard |-> DefaultMinCycles,
                 max_cycles_per_shard |-> DefaultMaxCycles,
                 enable_checkpointing |-> TRUE]
    /\ cs_total = 0
    /\ cs_state = "unused"
    /\ cs_result = <<>>
    /\ InitSched
    /\ InitCk
    /\ InitCalIdle
    /\ gpu_semaphores = [t \in 0..NumClones |->
                            [g \in 0..(config.num_gpus - 1) |-> config.shards_per_gpu]]

InitPartition ==
    /\ config \in ValidConfigs
    /\ cs_total \in 0..(2 * MaxCycles)
    /\ cs_state = "ready"
    /\ cs_result = <<>>
    /\ InitSched
    /\ InitSideIdle
    /\ InitCk
    /\ InitCalIdle
    /\ gpu_semaphores = [t \in 0..NumClones |->
                            [g \in 0..(config.num_gpus - 1) |-> config.shards_per_gpu]]

CallCreateShards ==
    /\ cs_state = "ready"
    /\ cs_result' = create_shards(config, cs_total)
    /\ cs_state' = "returned"
    /\ UNCHANGED <<sideVars, calVars, config, cs_total, schedVars, checkpoints, ckVars>>

NextPartition == CallCreateShards

SpecPartition == InitPartition /\ [][NextPartition]_vars

\* ------------------------------------------------- SpecCheckpoint
InitCheckpoint ==
    /\ config = [num_gpus |-> 1, shards_per_gpu |-> 1,
                 min_cycles_per_shard |-> DefaultMinCycles,
                 max_cycles_per_shard |-> DefaultMaxCycles,
                 enable_checkpointing |-> TRUE]
    /\ cs_total = 0
    /\ cs_state = "unused"
    /\ cs_result = <<>>
    /\ InitSched
    /\ InitSideIdle
    /\ InitCk
    /\ InitCalIdle
    /\ gpu_semaphores = [t \in 0..NumClones |->
                            [g \in 0..(config.num_gpus - 1) |-> config.shards_per_gpu]]

\* create_checkpoint(program, stdin, cycle) for the one workload: the snapshot
\* is formatted anew at every call and returned; self.checkpoints is neither
\* read nor written
CallCreateCheckpoint(cycle) ==
    /\ Len(ck_requests) < MaxCkptCalls
    /\ ck_requests' = Append(ck_requests, cycle)
    /\ ck_computed' = ck_computed + 1
    /\ ck_last' = create_checkpoint(cycle)
    /\ checkpoints' = checkpoints
    /\ UNCHANGED <<sideVars, calVars, config, partVars, schedVars>>

NextCheckpoint == \E cycle \in 1..MaxCycles : CallCreateCheckpoint(cycle)

SpecCheckpoint == InitCheckpoint /\ [][NextCheckpoint]_vars

\* ------------------------------------------------- process_shard
Requests == 1..MaxCalls
Tables == 0..NumClones

NoProof == [parts |-> {}, recursion |-> FALSE]

\* the slot of a ShardResult that process_shard has not produced yet
NoResult ==
    [present |-> FALSE, shard_id |-> 0, gpu_id |-> 0, ok |-> FALSE,
     proof |-> NoProof, error |-> "none", cycles |-> 0]

\* the SP1Proof one shard's prove call returns: the proof of that shard alone
shard_proof(shard) == [parts |-> {shard.shard_id}, recursion |-> FALSE]

\* what the spawn_blocking task of process_shard can end with
ProveOutcomes == {"ok", "prove_err", "panic"}

\* mutant of make_result: the ShardResult does not carry the shard's own id
make_result_id_zero(shard, how) ==
    [present |-> TRUE,
     shard_id |-> 0,
     gpu_id |-> shard.gpu_id,
     ok |-> (how = "ok"),
     proof |-> IF how = "ok" THEN shard_proof(shard) ELSE NoProof,
     error |-> CASE how = "ok" -> "none"
                 [] how = "prove_err" -> "prove failed"
                 [] how = "panic" -> "Task execution failed",
     cycles |-> shard.end_cycle - shard.start_cycle]

\* process_shard, the match on proof_result: the ShardResult of a shard
make_result(shard, how) ==
    [present |-> TRUE,
     shard_id |-> shard.shard_id,
     gpu_id |-> shard.gpu_id,
     ok |-> (how = "ok"),
     proof |-> IF how = "ok" THEN shard_proof(shard) ELSE NoProof,
     error |-> CASE how = "ok" -> "none"
                 [] how = "prove_err" -> "prove failed"
                 [] how = "panic" -> "Task execution failed",
     cycles |-> shard.end_cycle - shard.start_cycle]

\* variant: a shard whose prove returned an error goes back to the gate
shard_task_next_retry(how) == IF how = "prove_err" THEN "acquire" ELSE "done"

\* process_shard after the blocking task: whatever it ended with, the
\* ShardResult is built and returned, the future is complete
shard_task_next(how) == "done"

\* no blocking prove task of the shard is running
NoCall == [issued |-> FALSE, device |-> EnvUnset, range |-> <<0, 0>>,
           checkpoint |-> NoCheckpoint]

\* the blocking task of process_shard: prove(&pk, &stdin) with the shard's
\* whole stdin_data in both branches of the checkpoint test, so the request is
\* for the execution of the full program (estimate_cycles cycles); the
\* checkpoint is only logged and the shard's cycle range is not passed on
prove_request(shard) == [range |-> <<0, EstimateCycles>>, checkpoint |-> NoCheckpoint]

\* mutant of gate_key: every shard takes the gate of device 0
gate_key_zero(shard) == 0

\* process_shard: the key of the gate looked up, semaphores.get(&shard.gpu_id)
gate_key(shard) == shard.gpu_id

\* variant: a permit is handed out only while another one stays free
acquire_ready_keeps_one(free) == free > 1

\* semaphore.acquire(): a permit is taken when one is free
acquire_ready(free) == free > 0

\* mutant of drop_permit: the permit is leaked when the blocking task panicked
drop_permit_leak_on_panic(free, how) == IF how = "panic" THEN free ELSE free + 1

\* the drop of _permit when process_shard returns, whatever the task ended with
drop_permit(free, how) == free + 1

\* mutant of clone_semaphores: a clone gets a gate table of its own
clone_semaphores_fresh(t) == t + 1

\* impl Clone for ShardedProver: gpu_semaphores is an Arc clone, the same table
clone_semaphores(t) == t

\* the gate table of handle h: handle 0 is the prover built by new, handle h > 0
\* is a clone of handle h - 1
RECURSIVE handle_table(_)
handle_table(h) == IF h = 0 THEN 0 ELSE clone_semaphores(handle_table(h - 1))

\* the shard futures that hold a permit of gpu g
Holders(g) ==
    { x \in Requests \X (1..MaxGpus) :
        /\ x[2] <= Len(shards[x[1]])
        /\ spc[x[1]][x[2]] = "proving"
        /\ shards[x[1]][x[2]].gpu_id = g }

\* the shard futures waiting at semaphore.acquire() for gpu g
Waiters(g) ==
    { x \in Requests \X (1..MaxGpus) :
        /\ x[2] <= Len(shards[x[1]])
        /\ spc[x[1]][x[2]] = "acquire"
        /\ shards[x[1]][x[2]].gpu_id = g }

LiveShards == { x \in Requests \X (1..MaxGpus) : x[2] <= Len(shards[x[1]]) }

\* ------------------------------------------------- combine_shards
NoOutcome == [kind |-> "none", proof |-> NoProof, named |-> {}, msg |-> ""]
OkOutcome(p) == [kind |-> "ok", proof |-> p, named |-> {}, msg |-> ""]
\* Err(anyhow!(msg)), named: the shard ids the message contains
ErrOutcome(named, msg) == [kind |-> "err", proof |-> NoProof, named |-> named, msg |-> msg]

\* combine_shards, the for loop from element k on: the first failing result
\* returns the error at once, a successful one is pushed to successful_proofs
RECURSIVE collect_proofs(_, _, _)
collect_proofs(rs, k, successful_proofs) ==
    IF k > Len(rs) THEN [failed |-> FALSE, shard_id |-> 0, proofs |-> successful_proofs]
    ELSE IF rs[k].ok
         THEN collect_proofs(rs, k + 1, Append(successful_proofs, rs[k].proof))
         ELSE [failed |-> TRUE, shard_id |-> rs[k].shard_id, proofs |-> successful_proofs]

\* mutant of combine_shards: failed shards are skipped instead of failing the
\* workload
combine_shards_skip_failed(rs) ==
    LET good == SelectSeq(rs, LAMBDA x : x.ok)
    IN  IF Len(good) = 0 THEN ErrOutcome({}, "No successful shards to combine")
        ELSE OkOutcome(good[1].proof)

\* mutant of combine_shards: the emptiness test of successful_proofs is off by
\* one (len() <= 1), so a lone proof is rejected
combine_shards_needs_two(rs) ==
    LET c == collect_proofs(rs, 1, <<>>)
    IN  IF c.failed THEN ErrOutcome({c.shard_id}, "Shard failed")
        ELSE IF Len(c.proofs) <= 1 THEN ErrOutcome({}, "No successful shards to combine")
        ELSE OkOutcome(Head(c.proofs))

\* combine_shards: Err on the first failing shard, Err on no proof, the proof
\* itself for one shard, and for several the first proof (the placeholder of
\* the recursion step)
combine_shards(rs) ==
    LET c == collect_proofs(rs, 1, <<>>)
    IN  IF c.failed THEN ErrOutcome({c.shard_id}, "Shard failed")
        ELSE IF Len(c.proofs) = 0 THEN ErrOutcome({}, "No successful shards to combine")
        ELSE IF Len(c.proofs) = 1 THEN OkOutcome(c.proofs[1])
        ELSE OkOutcome(Head(c.proofs))

\* mutant of join_slot: results are collected in completion order, each into
\* the first free slot
join_slot_completion_order(results, k, res) ==
    LET free == { j \in 1..Len(results) : ~results[j].present }
        first == CHOOSE j \in free : \A i \in free : j <= i
    IN  [results EXCEPT ![first] = res]

\* join_all(shard_futures): the output of the k-th future is element k of the
\* returned Vec, whenever it completes
join_slot(results, k, res) == [results EXCEPT ![k] = res]

\* mutant of join_ready: the call returns with the first shard that completes
join_ready_first(states) == \E k \in 1..Len(states) : states[k] = "done"

\* join_all(shard_futures): ready once every shard future has completed
join_ready(states) == \A k \in 1..Len(states) : states[k] = "done"

\* ------------------------------------------------- SpecConstruct
\* every ShardingConfig the struct can hold within the bounds
AnyConfigs ==
    [num_gpus : 0..MaxGpus,
     shards_per_gpu : 0..MaxShardsPerGpu,
     min_cycles_per_shard : 0..MaxCycles,
     max_cycles_per_shard : 0..MaxCycles,
     enable_checkpointing : BOOLEAN]

\* ShardedProver::new: one Semaphore::new(config.shards_per_gpu) per gpu id
new_semaphores(cfg) == [g \in 0..(cfg.num_gpus - 1) |-> cfg.shards_per_gpu]

InitConstruct ==
    /\ config \in AnyConfigs
    /\ cs_total \in 0..(2 * MaxCycles)
    /\ cs_state = "unbuilt"
    /\ cs_result = <<>>
    /\ InitSched
    /\ InitSideIdle
    /\ InitCk
    /\ InitCalIdle
    /\ gpu_semaphores = [t \in 0..NumClones |-> <<>>]

\* ShardedProver::new(config): no field of config is examined, Ok(prover)
CallNew ==
    /\ cs_state = "unbuilt"
    /\ gpu_semaphores' = [t \in 0..NumClones |-> new_semaphores(config)]
    /\ cs_state' = "ready"
    /\ UNCHANGED <<sideVars, calVars, config, cs_total, cs_result, pc, req_sems, shards, spc,
                   shard_results, outcome, cuda_env, prover_call, checkpoints, ckVars,
                   timeVars, metrics>>

\* create_shards on the built prover: total_cycles / num_gpus panics when
\* num_gpus is 0; otherwise the shards are returned and one process_shard
\* future per shard is about to acquire
CallCreateShardsBuilt ==
    /\ cs_state = "ready"
    /\ IF config.num_gpus = 0
       THEN /\ cs_state' = "panicked"
            /\ UNCHANGED <<cs_result, spc>>
       ELSE /\ cs_result' = create_shards(config, cs_total)
            /\ cs_state' = "returned"
            /\ spc' = [spc EXCEPT ![1] = [k \in 1..config.num_gpus |-> "acquire"]]
    /\ UNCHANGED <<sideVars, calVars, config, cs_total, pc, req_sems, shards, shard_results, outcome,
                   gpu_semaphores, cuda_env, prover_call, checkpoints, ckVars,
                   timeVars, metrics>>

\* process_shard of shard k up to semaphore.acquire().await returning
AcquireBuilt(k) ==
    /\ cs_state = "returned"
    /\ k \in 1..Len(cs_result)
    /\ spc[1][k] = "acquire"
    /\ LET g == gate_key(cs_result[k])
       IN  /\ acquire_ready(gpu_semaphores[0][g])
           /\ gpu_semaphores' = [gpu_semaphores EXCEPT ![0][g] = @ - 1]
    /\ spc' = [spc EXCEPT ![1][k] = "proving"]
    /\ UNCHANGED <<sideVars, calVars, config, partVars, pc, req_sems, shards, shard_results, outcome,
                   cuda_env, prover_call, checkpoints, ckVars, timeVars, metrics>>

NextConstruct ==
    \/ CallNew
    \/ CallCreateShardsBuilt
    \/ \E k \in 1..MaxGpus : AcquireBuilt(k)

SpecConstruct == InitConstruct /\ [][NextConstruct]_vars

\* ------------------------------------------------- SpecCalibrate
\* the calibrators tried, with the gas their execute reports
CalibInputs ==
    { c \in [kind : {"single", "sharded"},
             cost_per_hour : {FInt(0), FInt(100000)},
             utilization_rate : {FInt(0), Frac(1, 2), FInt(1)},
             profit_margin : {FInt(0), Frac(1, 10)},
             num_gpus : 1..MaxCalGpus,
             gas : {NoGas, 0, 1000}] :
        c.kind = "single" => c.num_gpus = 1 }

\* report.gas.unwrap_or(0)
unwrap_gas(gas) == IF gas = NoGas THEN 0 ELSE gas

\* proof generations of one calibrate: one, or the loop over 0..self.num_gpus
proofs_needed(c) == IF c.kind = "single" THEN 1 ELSE c.num_gpus

\* variant: the loop is left after the first proof
cal_loop_done_after_first(c, runs) == runs >= 1

\* the proof generation loop has run to its end
cal_loop_done(c, runs) == runs = proofs_needed(c)

\* SinglePassCalibrator: prover_gas as f64 / duration.as_secs_f64()
single_throughput(prover_gas, duration) == FDiv(FInt(prover_gas), FInt(duration))

\* ShardedCalibrator: total_gas as f64 / (total_duration / num_gpus as f64)
sharded_throughput(total_gas, total_duration, num_gpus) ==
    FDiv(FInt(total_gas), FDiv(FInt(total_duration), FInt(num_gpus)))

\* SinglePassCalibrator: the price per pgu
single_pgu_price(pgus_per_second, c) ==
    LET pgus_per_hour == FMul(pgus_per_second, FInt(3600))
        utilized_pgus_per_hour == FMul(pgus_per_hour, c.utilization_rate)
        optimal_pgu_price == FDiv(c.cost_per_hour, utilized_pgus_per_hour)
    IN  FMul(optimal_pgu_price, FAdd(FInt(1), c.profit_margin))

\* variant: the price is charged per device
sharded_pgu_price_per_device(pgus_per_second, c) ==
    FMul(single_pgu_price(pgus_per_second, c), FInt(c.num_gpus))

\* ShardedCalibrator: the price per pgu
sharded_pgu_price(pgus_per_second, c) ==
    LET pgus_per_hour == FMul(pgus_per_second, FInt(3600))
        utilized_pgus_per_hour == FMul(pgus_per_hour, c.utilization_rate)
        optimal_pgu_price == FDiv(c.cost_per_hour, utilized_pgus_per_hour)
    IN  FMul(optimal_pgu_price, FAdd(FInt(1), c.profit_margin))

OkMetrics(pps, price) ==
    [kind |-> "ok", at |-> "", pgus_per_second |-> pps, pgu_price |-> price]
ErrMetrics(at) ==
    [kind |-> "err", at |-> at, pgus_per_second |-> FInt(0), pgu_price |-> FInt(0)]

InitCalibrate ==
    /\ config = [num_gpus |-> 1, shards_per_gpu |-> 1,
                 min_cycles_per_shard |-> DefaultMinCycles,
                 max_cycles_per_shard |-> DefaultMaxCycles,
                 enable_checkpointing |-> TRUE]
    /\ cs_total = 0
    /\ cs_state = "unused"
    /\ cs_result = <<>>
    /\ InitSched
    /\ InitSideIdle
    /\ InitCk
    /\ gpu_semaphores = [t \in 0..NumClones |-> new_semaphores(config)]
    /\ calib \in CalibInputs
    /\ cal_pc = "start"
    /\ cal_runs = 0
    /\ cal_started = 0
    /\ cal_total_gas = 0
    /\ cal_elapsed = 0
    /\ cal_result = NoMetrics

\* calibrate: client.execute(..).run() with `?`, then setup
CalExecute(ok) ==
    /\ cal_pc = "start"
    /\ IF ok
       THEN /\ cal_pc' = "proving"
            /\ cal_result' = cal_result
       ELSE /\ cal_pc' = "returned"
            /\ cal_result' = ErrMetrics("execute")
    /\ UNCHANGED <<calib, cal_runs, cal_started, cal_total_gas, cal_elapsed,
                   sideVars, config, partVars, schedVars, checkpoints, ckVars>>

\* calibrate: one client.prove(..).run() with `?`, taking secs seconds; in the
\* ShardedCalibrator loop total_gas += prover_gas follows a success
CalProve(ok, secs) ==
    /\ cal_pc = "proving"
    /\ ~cal_loop_done(calib, cal_runs)
    /\ cal_started' = cal_started + 1
    /\ cal_elapsed' = cal_elapsed + secs
    /\ IF ok
       THEN /\ cal_runs' = cal_runs + 1
            /\ cal_total_gas' = IF calib.kind = "sharded"
                                 THEN cal_total_gas + unwrap_gas(calib.gas)
                                 ELSE cal_total_gas
            /\ UNCHANGED <<cal_pc, cal_result>>
       ELSE /\ cal_pc' = "returned"
            /\ cal_result' = ErrMetrics("prove")
            /\ UNCHANGED <<cal_runs, cal_total_gas>>
    /\ UNCHANGED <<sideVars, calib, config, partVars, schedVars, checkpoints, ckVars>>

\* calibrate: throughput and price are computed and Ok(metrics) returned
CalReturn ==
    /\ cal_pc = "proving"
    /\ cal_loop_done(calib, cal_runs)
    /\ LET pgus_per_second ==
               IF calib.kind = "single"
               THEN single_throughput(unwrap_gas(calib.gas), cal_elapsed)
               ELSE sharded_throughput(cal_total_gas, cal_elapsed, calib.num_gpus)
           pgu_price ==
               IF calib.kind = "single"
               THEN single_pgu_price(pgus_per_second, calib)
               ELSE sharded_pgu_price(pgus_per_second, calib)
       IN  cal_result' = OkMetrics(pgus_per_second, pgu_price)
    /\ cal_pc' = "returned"
    /\ UNCHANGED <<calib, cal_runs, cal_started, cal_total_gas, cal_elapsed,
                   sideVars, config, partVars, schedVars, checkpoints, ckVars>>

NextCalibrate ==
    \/ \E ok \in BOOLEAN : CalExecute(ok)
    \/ \E ok \in BOOLEAN, secs \in 1..MaxProofSecs : CalProve(ok, secs)
    \/ CalReturn

SpecCalibrate == InitCalibrate /\ [][NextCalibrate]_vars

\* ------------------------------------------------- Spec
\* ShardingConfig::default with num_gpus and shards_per_gpu free
Init ==
    /\ config \in [num_gpus : 1..MaxGpus,
                   shards_per_gpu : 1..MaxShardsPerGpu,
                   min_cycles_per_shard : {DefaultMinCycles},
                   max_cycles_per_shard : {DefaultMaxCycles},
                   enable_checkpointing : {TRUE}]
    /\ cs_total = 0
    /\ cs_state = "unused"
    /\ cs_result = <<>>
    /\ InitSched
    /\ InitSideIdle
    /\ InitCk
    /\ InitCalIdle
    /\ gpu_semaphores = [t \in Tables |->
                            [g \in 0..(config.num_gpus - 1) |-> config.shards_per_gpu]]

\* process_proof_request called on handle h, up to the first poll of join_all:
\* estimate_cycles, create_shards, one process_shard future per shard
Submit(r, h) ==
    /\ pc[r] = "idle"
    /\ \A q \in Requests : q < r => pc[q] # "idle"
    /\ Cardinality(LiveShards) + config.num_gpus <= MaxInFlight
    /\ metrics.total_proofs_processed < MaxProofs
    /\ LET sh == create_shards(config, EstimateCycles)
       IN  /\ shards' = [shards EXCEPT ![r] = sh]
           /\ spc' = [spc EXCEPT ![r] = [k \in 1..Len(sh) |-> "acquire"]]
           /\ shard_results' = [shard_results EXCEPT ![r] = [k \in 1..Len(sh) |-> NoResult]]
           /\ prover_call' = [prover_call EXCEPT ![r] = [k \in 1..Len(sh) |-> NoCall]]
    /\ req_sems' = [req_sems EXCEPT ![r] = handle_table(h)]
    /\ pc' = [pc EXCEPT ![r] = "joining"]
    \* create_checkpoint returns the snapshot and inserts nothing
    /\ checkpoints' = checkpoints
    /\ req_time' = [req_time EXCEPT ![r] = [start_time |-> now, total_time |-> 0]]
    /\ shard_time' = [shard_time EXCEPT ![r] =
                         [k \in 1..config.num_gpus |->
                             [NoShardTime EXCEPT !.start_time = now]]]
    /\ UNCHANGED <<sideVars, calVars, config, partVars, ckVars, outcome, gpu_semaphores, cuda_env,
                   now, metrics>>

\* process_shard: the gate of the shard is looked up and a permit acquired,
\* CUDA_VISIBLE_DEVICES is set to the shard's gpu_id and the blocking prove
\* task is spawned
Acquire(r, k) ==
    /\ pc[r] = "joining"
    /\ k \in 1..Len(shards[r])
    /\ spc[r][k] = "acquire"
    /\ LET t == req_sems[r]
           g == gate_key(shards[r][k])
       IN  /\ acquire_ready(gpu_semaphores[t][g])
           /\ gpu_semaphores' = [gpu_semaphores EXCEPT ![t][g] = @ - 1]
    /\ cuda_env' = shards[r][k].gpu_id
    /\ spc' = [spc EXCEPT ![r][k] = "proving"]
    /\ shard_time' = [shard_time EXCEPT ![r][k].permit_at = now]
    /\ UNCHANGED <<sideVars, calVars, config, partVars, ckVars, checkpoints, pc, req_sems, shards,
                   shard_results, outcome, prover_call, now, req_time, metrics>>

\* the blocking task of process_shard starts on its thread: ProverClient::from_env
\* reads the environment, setup, and the prove request is issued
StartProve(r, k) ==
    /\ pc[r] = "joining"
    /\ k \in 1..Len(shards[r])
    /\ spc[r][k] = "proving"
    /\ ~prover_call[r][k].issued
    /\ prover_call' = [prover_call EXCEPT ![r][k] =
                          [issued |-> TRUE,
                           device |-> cuda_env,
                           range |-> prove_request(shards[r][k]).range,
                           checkpoint |-> prove_request(shards[r][k]).checkpoint]]
    /\ UNCHANGED <<sideVars, calVars, config, partVars, ckVars, checkpoints, pc, req_sems, shards, spc,
                   shard_results, outcome, gpu_semaphores, cuda_env, timeVars, metrics>>

\* process_shard: the blocking task ends (proof or prove error of the issued
\* request, or a panic anywhere in the task), the ShardResult is built and the
\* permit dropped on return
Finish(r, k, how) ==
    /\ pc[r] = "joining"
    /\ k \in 1..Len(shards[r])
    /\ spc[r][k] = "proving"
    /\ how = "panic" \/ prover_call[r][k].issued
    /\ prover_call' = [prover_call EXCEPT ![r][k] = NoCall]
    /\ shard_results' = [shard_results EXCEPT
                            ![r] = join_slot(@, k, make_result(shards[r][k], how))]
    /\ LET t == req_sems[r]
           g == gate_key(shards[r][k])
       IN  gpu_semaphores' = [gpu_semaphores EXCEPT ![t][g] = drop_permit(@, how)]
    /\ spc' = [spc EXCEPT ![r][k] = shard_task_next(how)]
    /\ shard_time' = [shard_time EXCEPT ![r][k].processing_time =
                                            elapsed(shard_time[r][k].start_time, now)]
    /\ UNCHANGED <<sideVars, calVars, config, partVars, ckVars, checkpoints, pc, req_sems, shards, outcome,
                   cuda_env, now, req_time, metrics>>

\* a variant of after_combine that goes on to update_metrics after a failure
after_combine_counts_failure(res) == "metrics"

\* `self.combine_shards(shard_results).await?`: an error returns from
\* process_proof_request at once, a proof goes on to update_metrics
after_combine(res) == IF res.kind = "ok" THEN "metrics" ELSE "done"

\* process_proof_request: join_all returns and combine_shards decides the
\* outcome; an error is returned by `?`, otherwise total_time is read and
\* update_metrics is entered
Combine(r) ==
    /\ pc[r] = "joining"
    /\ join_ready(spc[r])
    /\ LET res == combine_shards(shard_results[r])
       IN  /\ outcome' = [outcome EXCEPT ![r] = res]
           /\ pc' = [pc EXCEPT ![r] = after_combine(res)]
           /\ IF res.kind = "ok"
              THEN req_time' = [req_time EXCEPT ![r].total_time =
                                   elapsed(req_time[r].start_time, now)]
              ELSE req_time' = req_time
    /\ UNCHANGED <<sideVars, calVars, config, partVars, ckVars, checkpoints, req_sems, shards, spc,
                   shard_results, gpu_semaphores, cuda_env, prover_call, now,
                   shard_time, metrics>>

\* update_metrics: self.metrics.lock().await returns the guard
LockMetrics(r) ==
    /\ pc[r] = "metrics"
    /\ metrics_lock_free({ q \in Requests : pc[q] = "locked" })
    /\ pc' = [pc EXCEPT ![r] = "locked"]
    /\ UNCHANGED <<sideVars, calVars, config, partVars, ckVars, checkpoints, req_sems, shards, spc,
                   shard_results, outcome, gpu_semaphores, cuda_env, prover_call,
                   timeVars, metrics>>

\* update_metrics: the counters are updated, the guard is dropped, and
\* process_proof_request has Ok(final_proof) to return
UpdateMetrics(r) ==
    /\ pc[r] = "locked"
    /\ metrics' = update_metrics(metrics, req_time[r].total_time, config.num_gpus)
    /\ pc' = [pc EXCEPT ![r] = "done"]
    /\ UNCHANGED <<sideVars, calVars, config, partVars, ckVars, checkpoints, req_sems, shards, spc,
                   shard_results, outcome, gpu_semaphores, cuda_env, prover_call,
                   timeVars>>

\* the caller takes the returned value; the slot is free for another call
Return(r) ==
    /\ pc[r] = "done"
    /\ pc' = [pc EXCEPT ![r] = "idle"]
    /\ shards' = [shards EXCEPT ![r] = <<>>]
    /\ spc' = [spc EXCEPT ![r] = <<>>]
    /\ shard_results' = [shard_results EXCEPT ![r] = <<>>]
    /\ outcome' = [outcome EXCEPT ![r] = NoOutcome]
    /\ req_sems' = [req_sems EXCEPT ![r] = 0]
    /\ prover_call' = [prover_call EXCEPT ![r] = <<>>]
    /\ req_time' = [req_time EXCEPT ![r] = NoReqTime]
    /\ shard_time' = [shard_time EXCEPT ![r] = <<>>]
    /\ UNCHANGED <<sideVars, calVars, config, partVars, ckVars, checkpoints, gpu_semaphores, cuda_env,
                   now, metrics>>

Next ==
    \/ \E r \in Requests, h \in 0..NumClones : Submit(r, h)
    \/ \E r \in Requests, k \in 1..MaxGpus : Acquire(r, k)
    \/ \E r \in Requests, k \in 1..MaxGpus : StartProve(r, k)
    \/ \E r \in Requests, k \in 1..MaxGpus, how \in ProveOutcomes : Finish(r, k, how)
    \/ \E r \in Requests : Combine(r)
    \/ \E r \in Requests : LockMetrics(r)
    \/ \E r \in Requests : UpdateMetrics(r)
    \/ \E r \in Requests : Return(r)

Spec == Init /\ [][Next]_vars

\* ------------------------------------------------- SpecLive
\* Spec under fair scheduling: the tokio Semaphore and Mutex serve their
\* waiters in FIFO order, so a shard (a call) that finds the permit (the
\* lock) free again and again gets it; every task that can run is run; the
\* proving engine's calls end
Fairness ==
    /\ \A r \in 1..2, k \in 1..2 :
          /\ SF_vars(Acquire(r, k))
          /\ WF_vars(StartProve(r, k))
          /\ WF_vars(\E how \in ProveOutcomes : Finish(r, k, how))
    /\ \A r \in 1..2 :
          /\ WF_vars(Combine(r))
          /\ SF_vars(LockMetrics(r))
          /\ WF_vars(UpdateMetrics(r))
          /\ WF_vars(Return(r))

\* one or two devices with one or two permits each
InitLive ==
    /\ Init
    /\ config.num_gpus <= 2
    /\ config.shards_per_gpu <= 2

\* two callers
NextLive ==
    \/ \E r \in 1..2 : Submit(r, 0)
    \/ \E r \in 1..2, k \in 1..2 : Acquire(r, k)
    \/ \E r \in 1..2, k \in 1..2 : StartProve(r, k)
    \/ \E r \in 1..2, k \in 1..2, how \in ProveOutcomes : Finish(r, k, how)
    \/ \E r \in 1..2 : Combine(r)
    \/ \E r \in 1..2 : LockMetrics(r)
    \/ \E r \in 1..2 : UpdateMetrics(r)
    \/ \E r \in 1..2 : Return(r)

SpecLive == InitLive /\ [][NextLive]_vars /\ Fairness

\* ------------------------------------------------- SpecTimed
\* the clock advances by one tick while a call is in flight (no Instant is
\* read otherwise); a semaphore with a free permit admits a waiting shard
\* within the tick
Tick ==
    /\ now < MaxClock
    /\ \E r \in Requests : pc[r] \in {"joining", "metrics", "locked"}
    /\ \A r \in Requests : \A k \in 1..Len(spc[r]) :
           spc[r][k] = "acquire" =>
               ~acquire_ready(gpu_semaphores[req_sems[r]][gate_key(shards[r][k])])
    /\ now' = now + 1
    /\ UNCHANGED <<sideVars, calVars, config, partVars, ckVars, checkpoints, pc, req_sems, shards,
                   spc, shard_results, outcome, gpu_semaphores, cuda_env, prover_call,
                   req_time, shard_time, metrics>>

\* one device with one permit
InitTimed ==
    /\ Init
    /\ config.num_gpus = 1
    /\ config.shards_per_gpu = 1

\* two callers
NextTimed ==
    \/ \E r \in 1..2 : Submit(r, 0)
    \/ \E r \in 1..2 : Acquire(r, 1)
    \/ \E r \in 1..2 : StartProve(r, 1)
    \/ \E r \in 1..2, how \in ProveOutcomes : Finish(r, 1, how)
    \/ \E r \in 1..2 : Combine(r)
    \/ \E r \in 1..2 : LockMetrics(r)
    \/ \E r \in 1..2 : UpdateMetrics(r)
    \/ \E r \in 1..2 : Return(r)
    \/ Tick

SpecTimed == InitTimed /\ [][NextTimed]_vars

\* ------------------------------------------------- claims on create_shards
\* the ranges of sh are contiguous, non-overlapping and cover [0, total)
CoversExactly(sh, total) ==
    /\ Len(sh) >= 1
    /\ sh[1].start_cycle = 0
    /\ \A k \in 1..Len(sh) : sh[k].start_cycle <= sh[k].end_cycle
    /\ \A k \in 1..(Len(sh) - 1) : sh[k + 1].start_cycle = sh[k].end_cycle
    /\ sh[Len(sh)].end_cycle = total

\* ---------------------------------------------------------------------
\* SpecMetrics: update_metrics called any number of times, as
\* process_proof_request calls it: with a workload's total time and the
\* configured number of devices.
\* ---------------------------------------------------------------------
InitMetrics ==
    /\ config \in ValidConfigs
    /\ cs_total = 0
    /\ cs_state = "unused"
    /\ cs_result = <<>>
    /\ InitSched
    /\ InitSideIdle
    /\ InitCk
    /\ InitCalIdle
    /\ gpu_semaphores = [t \in 0..NumClones |->
                            [g \in 0..(config.num_gpus - 1) |-> config.shards_per_gpu]]

CallUpdateMetrics(total_time) ==
    /\ metrics.total_proofs_processed < MaxUpdates
    /\ metrics' = update_metrics(metrics, total_time, config.num_gpus)
    /\ UNCHANGED <<sideVars, calVars, config, partVars, ckVars, checkpoints, pc, req_sems,
                   shards, spc, shard_results, outcome, gpu_semaphores, cuda_env,
                   prover_call, timeVars>>

NextMetrics == \E total_time \in 0..MaxClock : CallUpdateMetrics(total_time)

SpecMetrics == InitMetrics /\ [][NextMetrics]_vars


\* ---------------------------------------------------------------------
\* SpecProofTimes: record_proof_completion called any number of times,
\* one call after the other.
\* ---------------------------------------------------------------------
InitProofTimes ==
    /\ InitProverIdle
    /\ InitMonIdle
    /\ InitPoolIdle
    /\ InitMemIdle

CallRecordProofCompletion(duration, success) ==
    /\ Len(mon_hist) + mon_metrics.total_proofs_failed < MaxRecords
    /\ mon_metrics' = record_proof_completion(mon_metrics, duration, success)
    /\ mon_hist' = IF success THEN Append(mon_hist, duration) ELSE mon_hist
    /\ UNCHANGED <<mon_alerts, mon_lock, mon_pc, mon_ticks,
                   poolVars, memVars, calVars, config, partVars, schedVars,
                   checkpoints, ckVars>>

NextProofTimes ==
    \E duration \in 0..MaxDuration, success \in BOOLEAN :
        CallRecordProofCompletion(duration, success)

SpecProofTimes == InitProofTimes /\ [][NextProofTimes]_vars

\* ---------------------------------------------------------------------
\* SpecMonitor: the monitoring loop and two callers on one ProverMonitor,
\* each lock().await, and each function body between its last lock and
\* its return, a step.
\* ---------------------------------------------------------------------
CallerOps == {"record_proof_completion", "record_deadline_miss",
              "get_metrics", "get_alerts"}

InFlight(op) == Cardinality({t \in MonTasks : mon_pc[t].op = op})

\* a caller enters one of the public functions
MonCall(t, op, duration, success) ==
    /\ t \in MonCallers
    /\ mon_pc[t].op = "idle"
    /\ op \in {"record_proof_completion", "record_deadline_miss"} =>
           Len(mon_hist) + mon_metrics.total_proofs_failed
               + Len(SelectSeq(mon_alerts, LAMBDA x : x = deadline_miss_alert))
               + InFlight("record_proof_completion")
               + InFlight("record_deadline_miss") < MaxMonCalls
    /\ mon_pc' = [mon_pc EXCEPT ![t] =
           [op |-> op, held |-> 0,
            duration |-> IF op = "record_proof_completion" THEN duration ELSE 0,
            success |-> op = "record_proof_completion" /\ success]]
    /\ UNCHANGED <<mon_metrics, mon_alerts, mon_lock, mon_ticks, mon_hist,
                   poolVars, memVars, calVars, config, partVars, schedVars,
                   checkpoints, ckVars>>

\* interval.tick().await returns in the spawned loop
MonTick ==
    /\ mon_pc[MonLoop].op = "idle"
    /\ mon_ticks < MaxLoopTicks
    /\ mon_ticks' = mon_ticks + 1
    /\ mon_pc' = [mon_pc EXCEPT ![MonLoop] =
                      [MonIdle EXCEPT !.op = "update_system_metrics"]]
    /\ UNCHANGED <<mon_metrics, mon_alerts, mon_lock, mon_hist,
                   poolVars, memVars, calVars, config, partVars, schedVars,
                   checkpoints, ckVars>>

\* a lock().await returns the guard; record_deadline_miss counts the miss
\* as soon as it holds the metrics
MonLock(t) ==
    /\ mon_pc[t].op # "idle"
    /\ mon_pc[t].held < Len(lock_order(mon_pc[t].op))
    /\ LET l == lock_order(mon_pc[t].op)[mon_pc[t].held + 1]
       IN  /\ mon_lock[l] = {}
           /\ mon_lock' = [mon_lock EXCEPT ![l] = {t}]
           /\ mon_metrics' =
                  IF mon_pc[t].op = "record_deadline_miss" /\ l = "metrics"
                  THEN [mon_metrics EXCEPT !.deadline_misses = @ + 1]
                  ELSE mon_metrics
    /\ mon_pc' = [mon_pc EXCEPT ![t].held = @ + 1]
    /\ UNCHANGED <<mon_alerts, mon_ticks, mon_hist,
                   poolVars, memVars, calVars, config, partVars, schedVars,
                   checkpoints, ckVars>>

\* the rest of the function with every lock held, and its return, which
\* drops the guards
MonFinish(t) ==
    /\ mon_pc[t].op # "idle"
    /\ mon_pc[t].held = Len(lock_order(mon_pc[t].op))
    /\ LET op == mon_pc[t].op
       IN  /\ mon_metrics' =
                  CASE op = "record_proof_completion" ->
                           record_proof_completion(mon_metrics, mon_pc[t].duration,
                                                   mon_pc[t].success)
                    [] op = "update_system_metrics" ->
                           update_system_metrics(mon_metrics)
                    [] OTHER -> mon_metrics
           /\ mon_hist' =
                  IF op = "record_proof_completion" /\ mon_pc[t].success
                  THEN Append(mon_hist, mon_pc[t].duration)
                  ELSE mon_hist
           /\ mon_alerts' =
                  CASE op = "record_deadline_miss" ->
                           Append(mon_alerts, deadline_miss_alert)
                    [] op = "check_alerts" -> check_alerts(mon_metrics, mon_alerts)
                    [] OTHER -> mon_alerts
           /\ mon_pc' = [mon_pc EXCEPT ![t] =
                             [MonIdle EXCEPT !.op =
                                 IF t = MonLoop THEN loop_next(op) ELSE "idle"]]
    /\ mon_lock' = [l \in DOMAIN mon_lock |-> mon_lock[l] \ {t}]
    /\ UNCHANGED <<mon_ticks,
                   poolVars, memVars, calVars, config, partVars, schedVars,
                   checkpoints, ckVars>>

InitMonitor ==
    /\ InitProverIdle
    /\ InitMonIdle
    /\ InitPoolIdle
    /\ InitMemIdle

NextMonitor ==
    \/ \E t \in MonCallers, op \in CallerOps,
          duration \in {0, MaxDuration}, success \in BOOLEAN :
          MonCall(t, op, duration, success)
    \/ MonTick
    \/ \E t \in MonTasks : MonLock(t)
    \/ \E t \in MonTasks : MonFinish(t)

\* tokio's Mutex hands the lock to its waiters in turn, and every task that
\* can run is run
MonFairness ==
    \A t \in MonTasks : SF_vars(MonLock(t)) /\ WF_vars(MonFinish(t))

SpecMonitor == InitMonitor /\ [][NextMonitor]_vars /\ MonFairness


\* ---------------------------------------------------------------------
\* SpecPool: acquire and release called in any order on a MemoryPool of
\* any bounded capacity.
\* ---------------------------------------------------------------------
InitPool ==
    /\ InitProverIdle
    /\ InitMonIdle
    /\ InitMemIdle
    /\ pool \in [capacity : 0..MaxCapacity, in_use : {0}]
    /\ pool_last = NoPoolCall
    /\ pool_calls = 0

CallAcquire ==
    /\ pool_calls < MaxPoolCalls
    /\ LET r == pool_acquire(pool)
       IN  /\ pool' = r.pool
           /\ pool_last' = [op |-> "acquire", before |-> pool.in_use,
                            result |-> r.result]
    /\ pool_calls' = pool_calls + 1
    /\ UNCHANGED <<monVars, memVars, calVars, config, partVars, schedVars,
                   checkpoints, ckVars>>

CallRelease ==
    /\ pool_calls < MaxPoolCalls
    /\ pool' = pool_release(pool)
    /\ pool_last' = [op |-> "release", before |-> pool.in_use, result |-> "unit"]
    /\ pool_calls' = pool_calls + 1
    /\ UNCHANGED <<monVars, memVars, calVars, config, partVars, schedVars,
                   checkpoints, ckVars>>

NextPool == CallAcquire \/ CallRelease

SpecPool == InitPool /\ [][NextPool]_vars

\* ---------------------------------------------------------------------
\* SpecMemory: two threads calling record_allocation and
\* record_deallocation on one MemoryOptimizer, each atomic operation a step.
\* ---------------------------------------------------------------------
InitMemory ==
    /\ InitProverIdle
    /\ InitMonIdle
    /\ InitPoolIdle
    /\ InitMemIdle

MemCallsMade ==
    mem_hist.allocated + mem_hist.deallocated
        + Cardinality({t \in MemThreads : mem_pc[t].op # "idle"})

\* a thread enters record_allocation or record_deallocation
MemCall(t, op, size) ==
    /\ mem_pc[t].op = "idle"
    /\ MemCallsMade < MaxMemCalls
    /\ mem_pc' = [mem_pc EXCEPT ![t] =
                      [MemIdle EXCEPT !.op = op, !.at = "count", !.size = size]]
    /\ UNCHANGED <<mem, mem_hist, monVars, poolVars, calVars, config, partVars,
                   schedVars, checkpoints, ckVars>>

\* self.allocations / self.deallocations .fetch_add(1)
MemCount(t) ==
    /\ mem_pc[t].at = "count"
    /\ mem' = IF mem_pc[t].op = "record_allocation"
              THEN [mem EXCEPT !.allocations = wrapping_add(@, 1)]
              ELSE [mem EXCEPT !.deallocations = wrapping_add(@, 1)]
    /\ mem_pc' = [mem_pc EXCEPT ![t].at = "current"]
    /\ UNCHANGED <<mem_hist, monVars, poolVars, calVars, config, partVars,
                   schedVars, checkpoints, ckVars>>

\* record_allocation: current = current_memory.fetch_add(size) + size
MemAdd(t) ==
    /\ mem_pc[t].op = "record_allocation"
    /\ mem_pc[t].at = "current"
    /\ LET current == wrapping_add(mem.current_memory, mem_pc[t].size)
       IN  /\ mem' = [mem EXCEPT !.current_memory = current]
           /\ mem_pc' = [mem_pc EXCEPT ![t].current = current, ![t].at = "load"]
           /\ mem_hist' = [mem_hist EXCEPT !.after_allocation = @ \cup {current}]
    /\ UNCHANGED <<monVars, poolVars, calVars, config, partVars,
                   schedVars, checkpoints, ckVars>>

\* record_allocation: peak = peak_memory.load()
MemLoad(t) ==
    /\ mem_pc[t].at = "load"
    /\ mem_pc' = [mem_pc EXCEPT ![t].peak = mem.peak_memory, ![t].at = "loop"]
    /\ UNCHANGED <<mem, mem_hist, monVars, poolVars, calVars, config, partVars,
                   schedVars, checkpoints, ckVars>>

\* record_allocation: one turn of `while current > peak`: the function
\* returns when the test fails or the compare_exchange_weak succeeds; a
\* failed exchange, which may also fail when the values are equal, reloads
\* peak
MemLoop(t) ==
    /\ mem_pc[t].at = "loop"
    /\ IF mem_pc[t].current > mem_pc[t].peak
       THEN \/ /\ mem.peak_memory = mem_pc[t].peak
               /\ mem' = [mem EXCEPT !.peak_memory = mem_pc[t].current]
               /\ mem_pc' = [mem_pc EXCEPT ![t] = MemIdle]
               /\ mem_hist' = [mem_hist EXCEPT !.allocated = @ + 1]
            \/ /\ mem_pc' = [mem_pc EXCEPT ![t].peak = mem.peak_memory]
               /\ UNCHANGED <<mem, mem_hist>>
       ELSE /\ mem_pc' = [mem_pc EXCEPT ![t] = MemIdle]
            /\ mem_hist' = [mem_hist EXCEPT !.allocated = @ + 1]
            /\ mem' = mem
    /\ UNCHANGED <<monVars, poolVars, calVars, config, partVars,
                   schedVars, checkpoints, ckVars>>

\* record_deallocation: current_memory.fetch_sub(size), and the return
MemSub(t) ==
    /\ mem_pc[t].op = "record_deallocation"
    /\ mem_pc[t].at = "current"
    /\ mem' = [mem EXCEPT !.current_memory = wrapping_sub(@, mem_pc[t].size)]
    /\ mem_pc' = [mem_pc EXCEPT ![t] = MemIdle]
    /\ mem_hist' = [mem_hist EXCEPT !.deallocated = @ + 1]
    /\ UNCHANGED <<monVars, poolVars, calVars, config, partVars,
                   schedVars, checkpoints, ckVars>>

NextMemory ==
    \/ \E t \in MemThreads, op \in {"record_allocation", "record_deallocation"},
          size \in 1..MaxAllocSize : MemCall(t, op, size)
    \/ \E t \in MemThreads : MemCount(t)
    \/ \E t \in MemThreads : MemAdd(t)
    \/ \E t \in MemThreads : MemLoad(t)
    \/ \E t \in MemThreads : MemLoop(t)
    \/ \E t \in MemThreads : MemSub(t)

SpecMemory == InitMemory /\ [][NextMemory]_vars


\* C1: for every valid config and total_cycles > 0 the shard ranges returned by
\* create_shards are contiguous, pairwise non-overlapping and cover exactly
\* [0, total_cycles).
C1_RangesCoverTotal ==
    (cs_state = "returned" /\ cs_total > 0) => CoversExactly(cs_result, cs_total)

\* C2: for every valid config create_shards emits num_gpus * shards_per_gpu
\* shards.
C2_ShardCountIsGpusTimesSlots ==
    cs_state = "returned" =>
        Len(cs_result) = config.num_gpus * config.shards_per_gpu

\* ------------------------------------------------- claims on the gates
Gpus == 0..(config.num_gpus - 1)

\* C3: in every reachable state, for every device, the shards that hold the
\* device's permit and are executing number at most shards_per_gpu, across
\* all concurrent process_proof_request calls and all clones.
C3_PerDeviceConcurrencyBounded ==
    \A g \in Gpus : Cardinality(Holders(g)) <= config.shards_per_gpu

\* C3 witness: a gate with all its permits held by shards of different calls
\* and a further shard waiting for it
C3_FullGateWithWaiter ==
    \E g \in Gpus :
        /\ Cardinality(Holders(g)) = config.shards_per_gpu
        /\ config.shards_per_gpu >= 2
        /\ Waiters(g) # {}

\* C4: a shard waiting for the permit of device A can take it exactly when
\* fewer than shards_per_gpu permits of A are held; permits held on another
\* device never block it.
C4_GatesIndependent ==
    \A r \in Requests : \A k \in 1..Len(shards[r]) :
        (pc[r] = "joining" /\ spc[r][k] = "acquire") =>
            (ENABLED Acquire(r, k)
                <=> Cardinality(Holders(shards[r][k].gpu_id)) < config.shards_per_gpu)

\* C4 witness: a shard waits for device A, which has a free permit, while every
\* permit of another device B is held
C4_WaiterBesideFullDevice ==
    \E a \in Gpus, b \in Gpus :
        /\ a # b
        /\ Waiters(a) # {}
        /\ Cardinality(Holders(a)) < config.shards_per_gpu
        /\ Cardinality(Holders(b)) = config.shards_per_gpu

\* C5: the permit is released on every path of process_shard (proof, prove
\* error, panic of the blocking task): whenever no shard is executing, every
\* gate has shards_per_gpu free permits again.
C5_PermitsReleasedOnEveryPath ==
    (\A g \in Gpus : Holders(g) = {}) =>
        \A g \in Gpus : gpu_semaphores[0][g] = config.shards_per_gpu

\* C5 witness: no shard executes, and shards have ended on each of the three
\* paths
C5_AllPathsTakenAndIdle ==
    /\ \A g \in Gpus : Holders(g) = {}
    /\ \A e \in {"none", "prove failed", "Task execution failed"} :
          \E x \in LiveShards :
              /\ shard_results[x[1]][x[2]].present
              /\ shard_results[x[1]][x[2]].error = e

\* ------------------------------------------------- claims on aggregation
FailedIds(r) ==
    { shard_results[r][k].shard_id : k \in { j \in 1..Len(shards[r]) : ~shard_results[r][j].ok } }

\* C6: if at least one ShardResult of a workload carries a failure, the
\* workload returns an error and no proof artifact, for every N >= 1 and every
\* position of the failing shard.
C6_AnyFailureFailsWorkload ==
    \A r \in Requests :
        (pc[r] = "done" /\ FailedIds(r) # {}) =>
            (outcome[r].kind = "err" /\ outcome[r].proof = NoProof)

\* C6 witness: a returned workload whose first shard succeeded and whose last
\* shard failed
C6_FailureAfterSuccess ==
    \E r \in Requests :
        /\ pc[r] = "done"
        /\ Len(shards[r]) >= 2
        /\ shard_results[r][1].ok
        /\ ~shard_results[r][Len(shards[r])].ok

\* C7: when several shards of one workload fail, the workload-level error
\* names the shard id of every failing shard.
C7_ErrorNamesEveryFailingShard ==
    \A r \in Requests :
        (pc[r] = "done" /\ FailedIds(r) # {}) => outcome[r].named = FailedIds(r)

\* C8: when two or more shards all succeed, the final artifact is a
\* composition that includes every shard's artifact, never that of a proper
\* subset of the shards.
C8_CompositionIncludesEveryShard ==
    \A r \in Requests :
        (pc[r] = "done" /\ Len(shards[r]) >= 2 /\ FailedIds(r) = {}) =>
            /\ outcome[r].kind = "ok"
            /\ outcome[r].proof.parts = { shards[r][k].shard_id : k \in 1..Len(shards[r]) }

\* C9: when a workload has exactly one shard and it succeeds, combine_shards
\* returns that shard's artifact unchanged.
C9_SingleShardIdentity ==
    \A r \in Requests :
        (pc[r] = "done" /\ Len(shards[r]) = 1 /\ shard_results[r][1].ok) =>
            outcome[r] = OkOutcome(shard_proof(shards[r][1]))

\* C9 witness: a returned workload of one successful shard
C9_SingleShardReturned ==
    \E r \in Requests :
        pc[r] = "done" /\ Len(shards[r]) = 1 /\ shard_results[r][1].ok

\* C10: aggregation is a join barrier: the outcome is decided only after every
\* shard of the workload has produced its result; a shard that failed does not
\* cancel or skip its siblings.
C10_JoinBarrier ==
    \A r \in Requests :
        pc[r] = "done" =>
            \A k \in 1..Len(shards[r]) :
                spc[r][k] = "done" /\ shard_results[r][k].present

\* C10 witness: a returned workload whose shard 0 failed and whose sibling ran
\* to a proof all the same
C10_FailedShardWithFinishedSibling ==
    \E r \in Requests :
        /\ pc[r] = "done"
        /\ Len(shards[r]) >= 2
        /\ ~shard_results[r][1].ok
        /\ shard_results[r][2].ok

C12_ResultsInShardIdOrder ==
    \A r \in Requests :
        /\ \A j \in 1..Len(shard_results[r]) : \A k \in 1..Len(shard_results[r]) :
              (j < k /\ shard_results[r][j].present /\ shard_results[r][k].present) =>
                  shard_results[r][j].shard_id < shard_results[r][k].shard_id
        /\ pc[r] = "done" =>
              \A k \in 1..Len(shard_results[r]) : shard_results[r][k].shard_id = k - 1

\* C12 witness: the shard with id 1 completed while shard 0 has not, and its
\* result sits at position 1 of the results
C12_LaterShardCompletedFirst ==
    \E r \in Requests :
        /\ pc[r] = "joining"
        /\ Len(shards[r]) >= 2
        /\ spc[r][1] # "done"
        /\ spc[r][2] = "done"
        /\ shard_results[r][2].shard_id = 1

\* ------------------------------------------------- further claims on create_shards
\* C13: when total_cycles = 0, create_shards emits exactly one shard, with
\* range [0, 0).
C13_ZeroCyclesOneEmptyShard ==
    (cs_state = "returned" /\ cs_total = 0) =>
        /\ Len(cs_result) = 1
        /\ cs_result[1].start_cycle = 0
        /\ cs_result[1].end_cycle = 0

\* ------------------------------------------------- claims on the blocking prove task
\* C14: under concurrent shard execution the proving client of each shard runs
\* bound to the shard's own gpu_id: no interleaving lets the blocking task see
\* a CUDA_VISIBLE_DEVICES written by another shard.
C14_ClientBoundToOwnDevice ==
    \A r \in Requests : \A k \in 1..Len(shards[r]) :
        prover_call[r][k].issued => prover_call[r][k].device = shards[r][k].gpu_id

\* C15: the prove request issued for a shard is for the shard's own cycle range
\* and is given the shard's checkpoint when it has one; two shards of one
\* workload with different ranges do not issue the same full-program request.
C15_ProveRequestIsForOwnRange ==
    \A r \in Requests : \A k \in 1..Len(shards[r]) :
        prover_call[r][k].issued =>
            /\ prover_call[r][k].range = <<shards[r][k].start_cycle, shards[r][k].end_cycle>>
            /\ prover_call[r][k].checkpoint = shards[r][k].checkpoint_data
            /\ \A j \in 1..Len(shards[r]) :
                  ( /\ prover_call[r][j].issued
                    /\ <<shards[r][j].start_cycle, shards[r][j].end_cycle>>
                         # <<shards[r][k].start_cycle, shards[r][k].end_cycle>> ) =>
                      prover_call[r][j].range # prover_call[r][k].range

\* ------------------------------------------------- claims on checkpoints
\* C16: a shard carries a checkpoint if and only if checkpointing is enabled
\* and the shard's start_cycle is greater than 0.
C16_CheckpointIffEnabledAndLater ==
    cs_state = "returned" =>
        \A k \in 1..Len(cs_result) :
            /\ cs_result[k].checkpoint_data.present
                  <=> (config.enable_checkpointing /\ cs_result[k].start_cycle > 0)
            /\ cs_result[k].checkpoint_data.present =>
                  cs_result[k].checkpoint_data.cycle = cs_result[k].start_cycle

\* C16 witness: with checkpointing enabled, shard 0 carries none and shard 1,
\* which starts later, carries one
C16_SecondShardHasCheckpoint ==
    /\ cs_state = "returned"
    /\ config.enable_checkpointing
    /\ Len(cs_result) >= 2
    /\ ~cs_result[1].checkpoint_data.present
    /\ cs_result[2].start_cycle > 0
    /\ cs_result[2].checkpoint_data.present

\* C17: requesting a checkpoint for the same workload and the same cycle offset
\* a second time returns the snapshot the Checkpoint Store holds from the first
\* request and does not compute it again.
C17_RepeatedRequestReusesStored ==
    LET n == Len(ck_requests)
    IN  (n >= 2 /\ \E i \in 1..(n - 1) : ck_requests[i] = ck_requests[n]) =>
            /\ ck_requests[n] \in DOMAIN checkpoints
            /\ ck_last = checkpoints[ck_requests[n]]
            /\ ck_computed = Cardinality({ ck_requests[i] : i \in 1..n })

\* C18: the checkpoints of a workload are held by the Checkpoint Store while
\* the workload runs, and after process_proof_request has returned (success or
\* failure) the store holds no checkpoint of that workload.
C18_StoreHoldsCheckpointsWhileRunning ==
    \A r \in Requests :
        /\ pc[r] = "joining" =>
              \A k \in 1..Len(shards[r]) :
                  shards[r][k].checkpoint_data.present =>
                      <<r, shards[r][k].checkpoint_data.cycle>> \in DOMAIN checkpoints
        /\ pc[r] = "idle" => \A key \in DOMAIN checkpoints : key[1] # r

\* C19: all checkpoints of a workload exist, produced in increasing offset order
\* along the shard list, from the moment its shards may run (so before any of
\* them executes), and the steps of shard execution change neither the
\* checkpoints carried by the shards nor the Checkpoint Store.
C19_CheckpointsBeforeExecutionReadOnly ==
    [][ \A r \in Requests :
          /\ pc'[r] = "joining" =>
               LET sh == shards'[r]
               IN  /\ \A k \in 1..Len(sh) :
                          /\ sh[k].checkpoint_data.present =
                                 (config.enable_checkpointing /\ sh[k].start_cycle > 0)
                          /\ sh[k].checkpoint_data.present =>
                                 sh[k].checkpoint_data.cycle = sh[k].start_cycle
                   /\ \A j, k \in 1..Len(sh) :
                          (j < k /\ sh[j].checkpoint_data.present
                                 /\ sh[k].checkpoint_data.present) =>
                              sh[j].checkpoint_data.cycle < sh[k].checkpoint_data.cycle
          /\ (pc[r] = "joining" /\ pc'[r] = "joining"
                /\ (spc'[r] # spc[r] \/ prover_call'[r] # prover_call[r])) =>
               /\ checkpoints' = checkpoints
               /\ \A k \in 1..Len(shards[r]) :
                      shards'[r][k].checkpoint_data = shards[r][k].checkpoint_data
      ]_vars

\* C19 witness: the last of three shards is executing and the two checkpoints
\* of its workload, at increasing offsets, are there
C19_ThirdShardProvingWithCheckpoints ==
    \E r \in Requests :
        /\ Len(shards[r]) >= 3
        /\ spc[r][3] = "proving"
        /\ spc[r][2] = "acquire"
        /\ shards[r][2].checkpoint_data.present
        /\ shards[r][3].checkpoint_data.present
        /\ shards[r][2].checkpoint_data.cycle < shards[r][3].checkpoint_data.cycle

ShardPlan(sh) ==
    [k \in 1..Len(sh) |->
        <<sh[k].shard_id, sh[k].gpu_id, sh[k].start_cycle, sh[k].end_cycle>>]

CeilDiv(a, b) == (a + b - 1) \div b

\* C21: the cycles-per-shard value create_shards uses is
\* ceil(total_cycles / shard_count) clamped into [min_cycles_per_shard,
\* max_cycles_per_shard], and shard i has the range
\* [i * cycles_per_shard, min((i + 1) * cycles_per_shard, total_cycles)).
C21_CyclesPerShardIsClampedCeil ==
    cs_state = "returned" =>
        LET n == Len(cs_result)
            cps == Min(Max(CeilDiv(cs_total, n), config.min_cycles_per_shard),
                       config.max_cycles_per_shard)
        IN  \A k \in 1..n :
                /\ cs_result[k].start_cycle = (k - 1) * cps
                /\ cs_result[k].end_cycle = Min(k * cps, cs_total)

\* the config invariant: device_count >= 1, shards_per_device >= 1, min <= max
ConfigInvariant(cfg) ==
    /\ cfg.num_gpus >= 1
    /\ cfg.shards_per_gpu >= 1
    /\ cfg.min_cycles_per_shard <= cfg.max_cycles_per_shard

\* C22: a config that breaks the config invariant is rejected when the prover
\* is built or the workload is partitioned: it never leads to a panic, to an
\* accepted partition, or to a shard waiting on a gate that has no permit and
\* no holder.
C22_InvalidConfigRejected ==
    ~ConfigInvariant(config) =>
        /\ cs_state \notin {"panicked", "returned"}
        /\ \A k \in 1..Len(cs_result) :
               ~(/\ spc[1][k] = "acquire"
                 /\ gpu_semaphores[0][gate_key(cs_result[k])] = 0
                 /\ \A j \in 1..Len(cs_result) :
                        gate_key(cs_result[j]) = gate_key(cs_result[k]) =>
                            spc[1][j] = "acquire")

\* C23: when the execution reports zero or no gas, or utilization_rate is 0,
\* calibrate of either calibrator returns an error; it never returns Ok with
\* an infinite or undefined pgu_price.
C23_ZeroThroughputIsAnError ==
    cal_pc = "returned" =>
        /\ (unwrap_gas(calib.gas) = 0 \/ calib.utilization_rate = FInt(0)) =>
               cal_result.kind = "err"
        /\ cal_result.kind = "ok" => FIsFinite(cal_result.pgu_price)

\* C24: for positive throughput, cost_per_hour and utilization_rate the price
\* either calibrator returns is
\* cost_per_hour / (throughput * 3600 * utilization_rate) * (1 + profit_margin),
\* so the same price for the same throughput and parameters; for 0.1 USD per
\* hour, utilization 0.5, margin 0.1 and 1000 pgus per second that is
\* (0.1 / (1000 * 3600 * 0.5)) * 1.1 USD = 11/180 * 10^-6 USD.
C24_PriceFormula ==
    (/\ cal_result.kind = "ok"
     /\ FIsFinite(cal_result.pgus_per_second)
     /\ cal_result.pgus_per_second # FInt(0)
     /\ calib.cost_per_hour # FInt(0)
     /\ calib.utilization_rate # FInt(0)) =>
        /\ cal_result.pgu_price =
               FDiv(FMul(calib.cost_per_hour, FAdd(FInt(1), calib.profit_margin)),
                    FMul(cal_result.pgus_per_second,
                         FMul(FInt(3600), calib.utilization_rate)))
        /\ (/\ calib.cost_per_hour = FInt(100000)
            /\ calib.utilization_rate = Frac(1, 2)
            /\ calib.profit_margin = Frac(1, 10)
            /\ cal_result.pgus_per_second = FInt(1000)) =>
               cal_result.pgu_price = Frac(11, 180)

\* C24 witness: a ShardedCalibrator over two devices measured 1000 pgus per
\* second with the parameters of the example
C24_ExampleMeasuredOnTwoDevices ==
    /\ cal_result.kind = "ok"
    /\ calib.kind = "sharded"
    /\ calib.num_gpus = 2
    /\ calib.cost_per_hour = FInt(100000)
    /\ calib.utilization_rate = Frac(1, 2)
    /\ calib.profit_margin = Frac(1, 10)
    /\ cal_result.pgus_per_second = FInt(1000)

C26_NoShardRetried ==
    [][ \A r \in Requests :
          pc[r] = "joining" =>
            /\ \A k \in 1..Len(spc[r]) :
                 /\ spc[r][k] # "acquire" => spc'[r][k] # "acquire"
                 /\ spc[r][k] = "done" =>
                       /\ spc'[r][k] = "done"
                       /\ ~prover_call'[r][k].issued
                       /\ shard_results'[r][k] = shard_results[r][k]
                 /\ prover_call[r][k].issued =>
                       \/ prover_call'[r][k] = prover_call[r][k]
                       \/ spc'[r][k] = "done"
            /\ pc'[r] # "joining" =>
                 /\ shard_results'[r] = shard_results[r]
                 /\ outcome'[r] = combine_shards(shard_results[r])
      ]_vars

\* C26 witness: a workload ended with an error while the failed shard's
\* request had been issued once and its gate is free again
C26_FailedShardNotRetried ==
    \E r \in Requests :
        /\ pc[r] = "done"
        /\ outcome[r].kind = "err"
        /\ \E k \in 1..Len(shards[r]) :
               /\ shard_results[r][k].error = "prove failed"
               /\ spc[r][k] = "done"
               /\ gpu_semaphores[req_sems[r]][gate_key(shards[r][k])] = config.shards_per_gpu

\* C27: the processing_time of a ShardResult runs from the moment the shard's
\* permit is acquired to the completion or failure of its proof, so the time
\* the shard waited for a permit is not part of it.
C27_ProcessingTimeFromPermit ==
    [][ \A r \in Requests : \A k \in 1..Len(spc[r]) :
          (pc[r] = "joining" /\ spc[r][k] = "proving" /\ spc'[r][k] = "done") =>
              shard_time'[r][k].processing_time = now - shard_time[r][k].permit_at
      ]_vars

\* C28: metrics updates are not lost.  At most one workload is inside the
\* critical section of update_metrics; every step changes
\* total_proofs_processed by the number of workloads that leave it (one or
\* none) and total_processing_time by their durations; a workload that
\* returns a proof has passed through it, once.
C28_MetricsUpdatedOncePerWorkload ==
    [][ LET upd == { r \in Requests : pc[r] = "locked" /\ pc'[r] = "done" }
            dur == IF upd = {} THEN 0 ELSE req_time[CHOOSE r \in upd : TRUE].total_time
        IN  /\ Cardinality({ r \in Requests : pc'[r] = "locked" }) <= 1
            /\ Cardinality(upd) <= 1
            /\ metrics'.total_proofs_processed =
                   metrics.total_proofs_processed + Cardinality(upd)
            /\ metrics'.total_processing_time = metrics.total_processing_time + dur
            /\ \A r \in Requests :
                 /\ pc[r] = "locked" => pc'[r] \in {"locked", "done"}
                 /\ pc[r] = "metrics" => pc'[r] \in {"metrics", "locked"}
                 /\ (pc[r] # "done" /\ pc'[r] = "done" /\ outcome'[r].kind = "ok") =>
                        r \in upd
      ]_vars

\* C28 witness: a second workload holds the metrics lock after a first one,
\* of another duration, was counted
C28_SecondWorkloadInCriticalSection ==
    \E r, q \in Requests :
        /\ pc[r] = "done" /\ outcome[r].kind = "ok"
        /\ pc[q] = "locked"
        /\ req_time[q].total_time # req_time[r].total_time
        /\ req_time[r].total_time > 0
        /\ metrics.total_proofs_processed = 1
        /\ metrics.total_processing_time = req_time[r].total_time

RECURSIVE SumCycles(_, _)
SumCycles(sh, k) ==
    IF k > Len(sh) THEN 0
    ELSE (sh[k].end_cycle - sh[k].start_cycle) + SumCycles(sh, k + 1)

\* C29: every shard create_shards emits has start_cycle <= end_cycle, for
\* every config and total_cycles, so end_cycle - start_cycle (the cycles of
\* its ShardResult) never underflows, and the cycles of the shards of one
\* workload sum to total_cycles.
C29_RangesNotInvertedAndSumToTotal ==
    cs_state = "returned" =>
        /\ \A k \in 1..Len(cs_result) :
               cs_result[k].start_cycle <= cs_result[k].end_cycle
        /\ SumCycles(cs_result, 1) = cs_total

\* C30: deadlock freedom and termination.  With shards_per_gpu >= 1 and a
\* proving engine whose calls end, under fair scheduling every shard that
\* waits at its gate eventually gets its permit and every
\* process_proof_request eventually returns, however many calls are in
\* flight: no shard stays at its gate for ever and no call stays short of
\* its return for ever.
C30_EveryShardAdmittedEveryCallReturns ==
    /\ \A r \in 1..2, k \in 1..2 :
          []<>(~(k <= Len(spc[r]) /\ spc[r][k] = "acquire"))
    /\ \A r \in 1..2 : []<>(pc[r] \notin {"joining", "metrics", "locked"})

\* C30 witness: a shard waits at a gate whose only permits are held by shards
\* of another call that are being proved
C30_ShardWaitsBehindOtherCall ==
    \E r, q \in Requests : \E k \in 1..Len(spc[r]) :
        /\ r # q
        /\ pc[q] = "joining"
        /\ spc[r][k] = "acquire"
        /\ gpu_semaphores[req_sems[r]][gate_key(shards[r][k])] = 0
        /\ \A j \in 1..Len(spc[r]) : spc[r][j] = "acquire"
        /\ \E j \in 1..Len(spc[q]) :
               /\ gate_key(shards[q][j]) = gate_key(shards[r][k])
               /\ prover_call[q][j].issued

\* C31: a workload that fails leaves the metrics as they are: the counters
\* change only in the step in which a workload that has a proof to return
\* leaves update_metrics.
C31_FailedWorkloadLeavesMetrics ==
    [][ /\ metrics' # metrics =>
              \E r \in Requests :
                  /\ pc[r] = "locked" /\ pc'[r] = "done"
                  /\ outcome[r].kind = "ok"
        /\ \A r \in Requests :
              /\ (outcome[r].kind # "err" /\ outcome'[r].kind = "err") =>
                     (metrics' = metrics /\ pc'[r] = "done")
              /\ pc'[r] \in {"metrics", "locked"} => outcome'[r].kind = "ok"
      ]_vars

\* C31 witness: a workload has failed after another one was counted, and the
\* metrics show the counted one only
C31_FailedAfterCounted ==
    \E r, q \in Requests :
        /\ pc[r] = "done" /\ outcome[r].kind = "err"
        /\ pc[q] = "done" /\ outcome[q].kind = "ok"
        /\ req_time[q].total_time > 0
        /\ metrics.total_proofs_processed = 1
        /\ metrics.total_processing_time = req_time[q].total_time
        /\ shard_time[r][1].processing_time > req_time[q].total_time

\* C32: after any sequence of update_metrics calls total_shards_processed
\* is total_proofs_processed times num_gpus, and average_latency is the
\* total processing time in whole milliseconds divided by
\* total_proofs_processed, rounded down.
C32_ShardCountAndAverageLatency ==
    /\ metrics.total_shards_processed =
           metrics.total_proofs_processed * config.num_gpus
    /\ metrics.total_proofs_processed > 0 =>
           metrics.average_latency =
               ((metrics.total_processing_time \div TicksPerMilli)
                    \div metrics.total_proofs_processed) * TicksPerMilli

\* C32 witness: several workloads on several devices, with a total that is
\* neither whole milliseconds nor a multiple of the number of workloads
C32_UnevenAverageOnSeveralDevices ==
    /\ config.num_gpus >= 2
    /\ metrics.total_proofs_processed >= 3
    /\ metrics.total_processing_time % TicksPerMilli # 0
    /\ (metrics.total_processing_time \div TicksPerMilli)
           % metrics.total_proofs_processed # 0

\* C33: within one workload the shard ids are 0..n-1 in emission order, every
\* shard's gpu_id has a capacity gate, shard i is bound to device i and each
\* device receives exactly one shard.
C33_ShardIdsAndDevicesLineUp ==
    cs_state = "returned" =>
        /\ \A k \in 1..Len(cs_result) :
              /\ cs_result[k].shard_id = k - 1
              /\ cs_result[k].gpu_id \in DOMAIN gpu_semaphores[0]
              /\ cs_result[k].gpu_id = cs_result[k].shard_id
        /\ \A k, l \in 1..Len(cs_result) :
              cs_result[k].shard_id = cs_result[l].shard_id => k = l
        /\ \A g \in DOMAIN gpu_semaphores[0] :
              Cardinality({k \in 1..Len(cs_result) : cs_result[k].gpu_id = g}) = 1

\* C33 witness: three shards were emitted and the third one has looked up
\* its gate and holds a permit of it
C33_ThirdShardPassedItsGate ==
    /\ cs_state = "returned"
    /\ Len(cs_result) = 3
    /\ spc[1][3] = "proving"
    /\ gpu_semaphores[0][cs_result[3].gpu_id] = config.shards_per_gpu - 1

RECURSIVE SumSeq(_)
SumSeq(q) == IF q = <<>> THEN 0 ELSE Head(q) + SumSeq(Tail(q))

\* C34: after any sequence of record_proof_completion calls
\* average_proof_time is the mean of the durations recorded with success:
\* their total divided by total_proofs_completed (to the nanosecond).
C34_AverageIsMeanOfSuccesses ==
    mon_metrics.total_proofs_completed > 0 =>
        mon_metrics.average_proof_time =
            SumSeq(mon_hist) \div mon_metrics.total_proofs_completed

\* C35: after any sequence of record_proof_completion calls with a success
\* fastest_proof_time is the least and slowest_proof_time the greatest of
\* the durations recorded with success, a duration of zero included, and
\* failures are counted in total_proofs_failed alone.
C35_FastestAndSlowestAreMinAndMax ==
    /\ mon_metrics.total_proofs_completed = Len(mon_hist)
    /\ Len(mon_hist) > 0 =>
           /\ \E i \in 1..Len(mon_hist) : mon_metrics.fastest_proof_time = mon_hist[i]
           /\ \A i \in 1..Len(mon_hist) : mon_metrics.fastest_proof_time <= mon_hist[i]
           /\ \E i \in 1..Len(mon_hist) : mon_metrics.slowest_proof_time = mon_hist[i]
           /\ \A i \in 1..Len(mon_hist) : mon_metrics.slowest_proof_time >= mon_hist[i]
           /\ mon_metrics.fastest_proof_time <= mon_metrics.slowest_proof_time

\* C36: the monitor's tasks never block each other for good on the metrics
\* and the alerts lock, so every call returns; and a record_deadline_miss
\* call raises deadline_misses by one, when it has the metrics, and appends
\* one unacknowledged Critical alert, when it returns.
C36_CallsCompleteAndMissesCounted ==
    /\ [][\A t \in MonCallers :
              mon_pc[t].op = "record_deadline_miss" =>
                  /\ (t \notin mon_lock.metrics /\ t \in mon_lock'.metrics) =>
                         /\ mon_metrics'.deadline_misses =
                                mon_metrics.deadline_misses + 1
                         /\ mon_alerts' = mon_alerts
                  /\ t \in mon_lock.metrics =>
                         mon_metrics'.deadline_misses = mon_metrics.deadline_misses
                  /\ (t \in mon_lock.metrics /\ mon_pc'[t].op # "idle") =>
                         mon_alerts' = mon_alerts
                  /\ mon_pc'[t].op = "idle" =>
                         /\ mon_pc[t].held = 2
                         /\ Len(mon_alerts') = Len(mon_alerts) + 1
                         /\ SubSeq(mon_alerts', 1, Len(mon_alerts)) = mon_alerts
                         /\ mon_alerts'[Len(mon_alerts')].level = "Critical"
                         /\ ~mon_alerts'[Len(mon_alerts')].acknowledged
                         /\ mon_metrics' = mon_metrics
         ]_vars
    /\ \A t \in MonTasks : []<>(mon_pc[t].op = "idle")

\* C36 witness: record_deadline_miss holds the metrics and waits for the
\* alerts, which get_alerts holds, while the loop's check_alerts waits for
\* the metrics
C36_ThreeTasksOnTwoLocks ==
    \E t, u \in MonCallers :
        /\ mon_pc[t].op = "record_deadline_miss" /\ mon_pc[t].held = 1
        /\ mon_lock.metrics = {t}
        /\ mon_pc[u].op = "get_alerts" /\ mon_lock.alerts = {u}
        /\ mon_pc[MonLoop].op = "check_alerts" /\ mon_pc[MonLoop].held = 0

\* C37: for a MemoryPool of capacity c, 0 <= in_use <= c always holds;
\* acquire returns None exactly when in_use = c and otherwise raises in_use
\* by 1; release lowers in_use by 1 and does nothing when in_use = 0.
C37_PoolCountWithinCapacity ==
    /\ 0 <= pool.in_use /\ pool.in_use <= pool.capacity
    /\ pool_last.op = "acquire" =>
           /\ pool_last.result = "None" <=> pool_last.before = pool.capacity
           /\ pool_last.result = "None" => pool.in_use = pool_last.before
           /\ pool_last.result = "Some" => pool.in_use = pool_last.before + 1
    /\ pool_last.op = "release" =>
           pool.in_use = IF pool_last.before = 0 THEN 0 ELSE pool_last.before - 1

\* C37 witness: an acquire has just been refused by a full pool that was
\* filled, drained by one and filled again
C37_RefusedAtCapacity ==
    /\ pool.capacity >= 2
    /\ pool.in_use = pool.capacity
    /\ pool_last.op = "acquire" /\ pool_last.result = "None"
    /\ pool_calls >= pool.capacity + 3

\* C38: under any interleaving of record_allocation and
\* record_deallocation calls peak_memory never decreases; whenever no call
\* is in flight peak_memory is at least current_memory and at least every
\* value current_memory took right after an allocation, and allocations and
\* deallocations are the numbers of completed calls of each kind.
C38_PeakBoundsCurrentWhenIdle ==
    /\ [][mem'.peak_memory >= mem.peak_memory]_vars
    /\ []((\A t \in MemThreads : mem_pc[t].op = "idle") =>
             /\ mem.peak_memory >= mem.current_memory
             /\ \A v \in mem_hist.after_allocation : mem.peak_memory >= v
             /\ mem.allocations = mem_hist.allocated
             /\ mem.deallocations = mem_hist.deallocated)

====
